---- MODULE Spec2Model ----
(***************************************************************************)
(* Prompt Engineering Trainer: the heuristic scorer (backend/scoring.py),  *)
(* the Ollama adapter (backend/llm_eval.py), the response models           *)
(* (backend/models.py) and the /api/evaluate handler (backend/app.py).     *)
(*                                                                         *)
(* Texts are TLA+ strings, i.e. sequences of characters; the regular       *)
(* expressions of scoring.py are evaluated character by character.         *)
(***************************************************************************)
EXTENDS Integers, Sequences, FiniteSets, TLC

VARIABLES
    enabled,    \* cfg.ollama.enabled
    prompt,     \* body.prompt / the prompt argument of score_prompt
    goal,       \* body.goal: [present |-> BOOLEAN, v |-> string]
    pc,         \* position of the request: "idle", "awaiting", "scored", "done"
    sent,       \* number of POSTs sent to the Ollama endpoint by this call
    reply,      \* what came back from the POST (NoReply before that)
    llm_result, \* return value of evaluate_with_ollama
    response,   \* what the caller of evaluate_prompt / score_prompt receives
    subs_arg,   \* the subs argument of build_improved_prompt called on its own
    auth,       \* cfg.auth: [enabled, default_provider]
    session,    \* request.session: a dict from the session keys to values
    last,       \* the latest call on the session and the status it returned
    before      \* the call before that one, if it was a callback that logged in

evalVars == <<enabled, prompt, goal, pc, sent, reply, llm_result, response>>
authVars == <<auth, session, last, before>>
vars == <<evalVars, subs_arg, authVars>>

-----------------------------------------------------------------------------
(* Characters and Python's str methods                                     *)

Ch(t, i) == SubSeq(t, i, i)

Whitespace == {" ", "\t", "\n", "\r"}

UpperLetters == "ABCDEFGHIJKLMNOPQRSTUVWXYZ"
LowerLetters == "abcdefghijklmnopqrstuvwxyz"
DigitChars == {"0", "1", "2", "3", "4", "5", "6", "7", "8", "9"}
WordChars ==
    {Ch(UpperLetters, i) : i \in 1..Len(UpperLetters)}
        \cup {Ch(LowerLetters, i) : i \in 1..Len(LowerLetters)}
        \cup DigitChars \cup {"_"}

UpperChars == {Ch(UpperLetters, i) : i \in 1..Len(UpperLetters)}
LowerOf ==
    [c \in UpperChars |->
        Ch(LowerLetters, CHOOSE k \in 1..Len(UpperLetters) : Ch(UpperLetters, k) = c)]

\* str.lower() of one character
LowerCh(c) == IF c \in UpperChars THEN LowerOf[c] ELSE c

RECURSIVE Lower(_)
\* str.lower(); also the view of the text a re.I search works on
Lower(t) ==
    IF Len(t) = 0 THEN ""
    ELSE IF Len(t) = 1 THEN LowerCh(t)
    ELSE LET h == Len(t) \div 2
         IN  Lower(SubSeq(t, 1, h)) \o Lower(SubSeq(t, h + 1, Len(t)))

\* str.strip(): drop leading and trailing whitespace
Strip(t) ==
    LET keep == {i \in 1..Len(t) : Ch(t, i) \notin Whitespace}
    IN  IF keep = {} THEN ""
        ELSE LET lo == CHOOSE i \in keep : \A j \in keep : i <= j
                 hi == CHOOSE i \in keep : \A j \in keep : j <= i
             IN  SubSeq(t, lo, hi)

\* len(text.split()): the number of maximal runs of non-whitespace
WordCount(t) ==
    Cardinality({i \in 1..Len(t) :
        /\ Ch(t, i) \notin Whitespace
        /\ (i = 1 \/ Ch(t, i - 1) \in Whitespace)})

\* "?" in text
Contains(t, c) == \E i \in 1..Len(t) : Ch(t, i) = c

-----------------------------------------------------------------------------
(* re.search(pattern, text, re.I)                                          *)
(* A pattern is a set of alternatives; an alternative is a sequence of     *)
(* elements: Alt(S) one of the literals of S, Digits \d+, AnyRun .*,       *)
(* WB the word boundary \b.  Positions are 1..Len(t)+1, position i lying   *)
(* just before character i.                                                *)

Alt(S)  == [k |-> "alt", a |-> S]
Lit(s)  == Alt({s})
Opt(s)  == Alt({s, ""})
Digits  == [k |-> "digits", a |-> {}]
AnyRun  == [k |-> "any", a |-> {}]
WB      == [k |-> "b", a |-> {}]

IsWordAt(t, i) == i >= 1 /\ i <= Len(t) /\ Ch(t, i) \in WordChars

\* \b matches at i iff exactly one of the neighbouring characters is a word character
AtBoundary(t, i) == IsWordAt(t, i - 1) # IsWordAt(t, i)

LitAt(t, i, l) ==
    \/ l = ""
    \/ /\ i + Len(l) - 1 <= Len(t)
       /\ SubSeq(t, i, i + Len(l) - 1) = l

\* the positions where element e can end when it starts at a position of S
Step(t, e, S) ==
    CASE e.k = "alt" ->
            UNION {{i + Len(l) : l \in {m \in e.a : LitAt(t, i, m)}} : i \in S}
      [] e.k = "digits" ->
            {j \in 2..(Len(t) + 1) :
                \E i \in S : i < j /\ \A x \in i..(j - 1) : Ch(t, x) \in DigitChars}
      [] e.k = "any" ->
            {j \in 1..(Len(t) + 1) :
                \E i \in S : i <= j /\ \A x \in i..(j - 1) : Ch(t, x) # "\n"}
      [] e.k = "b" ->
            {i \in S : AtBoundary(t, i)}

RECURSIVE MatchEnds(_, _, _)
MatchEnds(t, alt, S) ==
    IF alt = <<>> \/ S = {} THEN S
    ELSE MatchEnds(t, Tail(alt), Step(t, Head(alt), S))

\* re.search(pattern, text, re.I) is not None
Search(pattern, text) ==
    LET t == Lower(text)
    IN  \E alt \in pattern : MatchEnds(t, alt, 1..(Len(t) + 1)) # {}

\* \b(l1|l2|...)\b for literals
Words(S) == {<<WB, Alt(S), WB>>}

-----------------------------------------------------------------------------
(* backend/scoring.py: the eight attribute rules                           *)

question_words == {"who", "what", "when", "where", "why", "how", "which"}

Rule(s, c) == [s |-> s, c |-> c]

\* truthiness of "goal and len(goal.strip()) >= 8"
GoalIsSpecific(g) == g.present /\ g.v # "" /\ Len(Strip(g.v)) >= 8

_clarity(text) ==
    LET has_qmark == Contains(text, "?")
        has_qword == \E w \in question_words : Search(Words({w}), text)
        words     == WordCount(text)
    IN  IF has_qmark /\ has_qword /\ words >= 6
          THEN Rule(5, "Clear, direct question")
        ELSE IF has_qmark \/ has_qword
          THEN Rule(4, "Question is somewhat clear")
        ELSE IF words < 6
          THEN Rule(2, "Too short/vague to understand")
        ELSE Rule(3, "Make it a direct question with a clear ask.")

SpecificityQuantity ==
    {<<WB, Digits, WB>>,
     <<WB, Lit("top "), Digits, WB>>,
     <<WB, Alt({"at least", "no more than"}), WB>>}
SpecificityTopic == Words({"for", "about", "regarding", "focused on"})

_specificity(text, g) ==
    LET hits == (IF Search(SpecificityQuantity, text) THEN 1 ELSE 0)
              + (IF Search(SpecificityTopic, text) THEN 1 ELSE 0)
              + (IF GoalIsSpecific(g) THEN 1 ELSE 0)
    IN  IF hits >= 3 THEN Rule(5, "Specific objective and constraints")
        ELSE IF hits = 2 THEN Rule(4, "Reasonably specific")
        ELSE IF hits = 1 THEN Rule(3, "Add more specifics (topic/audience/count).")
        ELSE Rule(2, "Too general-narrow the scope.")

ContextMarkers ==
    Words({"context:", "given", "below", "attached", "based on", "here is"})

\* _context with the length threshold mistyped as 6
_context_short(text) ==
    IF Search(ContextMarkers, text) THEN Rule(5, "Provides relevant context")
    ELSE IF WordCount(text) > 6 THEN Rule(3, "Some context implied by length")
    ELSE Rule(2, "Provide key background or inputs.")

_context(text) ==
    IF Search(ContextMarkers, text) THEN Rule(5, "Provides relevant context")
    ELSE IF WordCount(text) > 60 THEN Rule(3, "Some context implied by length")
    ELSE Rule(2, "Provide key background or inputs.")

FormatLength ==
    {<<WB, Lit("in "), Digits, Lit(" "),
       Alt({"words", "sentences", "bullets", "lines"}), WB>>}
FormatKind ==
    Words({"format", "schema", "json", "table", "markdown", "bullet", "bullets"})
FormatTone == Words({"tone", "style", "audience", "level"})

_constraints_and_format(text) ==
    LET hits == (IF Search(FormatLength, text) THEN 1 ELSE 0)
              + (IF Search(FormatKind, text) THEN 1 ELSE 0)
              + (IF Search(FormatTone, text) THEN 1 ELSE 0)
    IN  IF hits >= 2 THEN Rule(5, "Clear constraints and expected format")
        ELSE IF hits = 1 THEN Rule(3, "Some constraints present")
        ELSE Rule(2, "Specify length, audience, or format.")

BroadScope == Words({"everything", "anything", "all about", "complete guide"})

\* _scope_feasibility without its word-count branch
_scope_feasibility_any_length(text) ==
    IF Search(BroadScope, text) THEN Rule(2, "Scope is too broad-narrow it.")
    ELSE Rule(4, "Scope seems reasonable")

_scope_feasibility(text) ==
    IF Search(BroadScope, text) THEN Rule(2, "Scope is too broad-narrow it.")
    ELSE IF WordCount(text) < 6 THEN Rule(2, "Too short to determine scope")
    ELSE Rule(4, "Scope seems reasonable")

\* no \b in this pattern: it matches inside words too
LeadingPhrases ==
    {<<Lit("why is "), AnyRun, Lit(" better than")>>,
     <<Alt({"prove that", "obviously", "clearly"})>>}

_neutrality(text) ==
    IF Search(LeadingPhrases, text)
      THEN Rule(2, "Question appears leading or biased. Consider neutral phrasing.")
    ELSE Rule(4, "Neutral phrasing")

OutcomePhrases == Words({"so that", "goal", "use this to", "i need to"})

_outcome_oriented(text) ==
    IF Search(OutcomePhrases, text) THEN Rule(4, "Mentions desired outcome/use")
    ELSE Rule(3, "Optionally state intended outcome to guide answers.")

ClarifyPhrases ==
    {<<WB, Lit("ask "), Opt("a "), Lit("clarifying question"), WB>>,
     <<WB, Lit("if "), AnyRun, Alt({" missing", " unclear"}), WB>>,
     <<WB, Lit("if unsure"), WB>>}

_clarification_handling(text) ==
    IF Search(ClarifyPhrases, text)
      THEN Rule(5, "Invites clarification for ambiguities")
    ELSE Rule(3, "Encourage clarifying questions when info is missing.")

\* the scores each rule can return, in rubric order
RuleReturns ==
    <<{2, 3, 4, 5}, {2, 3, 4, 5}, {2, 3, 5}, {2, 3, 5}, {2, 4}, {2, 4}, {3, 4}, {3, 5}>>

\* _label_from_score with strict comparisons
_label_from_score_strict(score) ==
    IF score > 75 THEN "good"
    ELSE IF score > 45 THEN "ok"
    ELSE "bad"

_label_from_score(score) ==
    IF score >= 75 THEN "good"
    ELSE IF score >= 45 THEN "ok"
    ELSE "bad"

\* the rubric with two entries exchanged
RubricNamesExchanged ==
    <<"Clarity", "Context", "Specificity", "Constraints & Format",
      "Scope & Feasibility", "Neutrality", "Outcome Orientation", "Clarification">>

\* the rubric of score_prompt, in its order
RubricNames ==
    <<"Clarity", "Specificity", "Context", "Constraints & Format",
      "Scope & Feasibility", "Neutrality", "Outcome Orientation", "Clarification">>

\* the list subs built by the loop of score_prompt: (name, score, comment)
Subs(text, g) ==
    LET r == <<_clarity(text), _specificity(text, g), _context(text),
               _constraints_and_format(text), _scope_feasibility(text),
               _neutrality(text), _outcome_oriented(text),
               _clarification_handling(text)>>
    IN  [i \in 1..Len(RubricNames) |->
            [name |-> RubricNames[i], score |-> r[i].s, comment |-> r[i].c]]

RECURSIVE SumScores(_)
SumScores(subs) ==
    IF subs = <<>> THEN 0 ELSE Head(subs).score + SumScores(Tail(subs))

\* round(num / den) with ties going up, as Python 2 rounded
RoundHalfUp(num, den) ==
    IF 2 * (num % den) < den THEN num \div den ELSE (num \div den) + 1

\* Python 3 round(num / den) for num >= 0, den > 0: ties go to the even integer
RoundHalfEven(num, den) ==
    LET q == num \div den
        r == num % den
    IN  IF 2 * r < den THEN q
        ELSE IF 2 * r > den THEN q + 1
        ELSE IF q % 2 = 0 THEN q ELSE q + 1

\* int(round(100 * raw / max_points)) with max_points = 5 * len(subs)
OverallScore(subs) == RoundHalfEven(100 * SumScores(subs), 5 * Len(subs))

-----------------------------------------------------------------------------
(* Python values, as far as the handlers see them.  A value is a record    *)
(* [t, v]: t its type, v its content.  PyFloat(n) is the float n/10.       *)
(* Json(x) is a str holding a well-formed JSON document that decodes to x; *)
(* every other str used in a response body is not a JSON document.         *)

PyNone      == [t |-> "none", v |-> 0]
PyStr(s)    == [t |-> "str", v |-> s]
PyInt(n)    == [t |-> "int", v |-> n]
PyBool(b)   == [t |-> "bool", v |-> b]
PyFloat(n)  == [t |-> "float", v |-> n]
PyList(q)   == [t |-> "list", v |-> q]
PyDict(f)   == [t |-> "dict", v |-> f]
PyModel(r)  == [t |-> "model", v |-> r]
Json(x)     == [t |-> "json", v |-> x]

\* the result of a call that may raise
Ok(v)  == [ok |-> TRUE, v |-> v]
Raised == [ok |-> FALSE, v |-> "Exception"]

\* Optional[...] in a validated model
Absent     == [present |-> FALSE, v |-> ""]
Present(s) == [present |-> TRUE, v |-> s]

\* bool(x)
Truthy(x) ==
    CASE x.t = "none"  -> FALSE
      [] x.t = "str"   -> x.v # ""
      [] x.t = "json"  -> TRUE
      [] x.t = "int"   -> x.v # 0
      [] x.t = "float" -> x.v # 0
      [] x.t = "bool"  -> x.v
      [] x.t = "list"  -> x.v # <<>>
      [] x.t = "dict"  -> DOMAIN x.v # {}

DigitString == "0123456789"
DigitVal(c) == CHOOSE d \in 0..9 : Ch(DigitString, d + 1) = c

RECURSIVE DecValue(_)
DecValue(s) ==
    IF s = "" THEN 0
    ELSE 10 * DecValue(SubSeq(s, 1, Len(s) - 1)) + DigitVal(Ch(s, Len(s)))

RECURSIVE NatText(_)
NatText(n) ==
    IF n < 10 THEN Ch(DigitString, n + 1)
    ELSE NatText(n \div 10) \o Ch(DigitString, (n % 10) + 1)

\* int(s) for a str: surrounding whitespace and one sign allowed, then digits only
IntOfText(s) ==
    LET b      == Strip(s)
        signed == b # "" /\ Ch(b, 1) \in {"+", "-"}
        digits == IF signed THEN Tail(b) ELSE b
    IN  IF digits = "" \/ \E i \in 1..Len(digits) : Ch(digits, i) \notin DigitChars
          THEN Raised
        ELSE IF signed /\ Ch(b, 1) = "-" THEN Ok(0 - DecValue(digits))
        ELSE Ok(DecValue(digits))

\* int(x): floats truncate toward zero, None and containers raise TypeError
PyIntOf(x) ==
    CASE x.t = "int"   -> Ok(x.v)
      [] x.t = "bool"  -> Ok(IF x.v THEN 1 ELSE 0)
      [] x.t = "float" -> Ok(IF x.v >= 0 THEN x.v \div 10 ELSE 0 - ((0 - x.v) \div 10))
      [] x.t = "str"   -> IntOfText(x.v)
      [] x.t \in {"none", "list", "dict", "json"} -> Raised

\* str(x) for the values a label can arrive as
PyStrOf(x) ==
    CASE x.t = "str"  -> x.v
      [] x.t = "none" -> "None"
      [] x.t = "bool" -> IF x.v THEN "True" ELSE "False"
      [] x.t = "int"  -> IF x.v < 0 THEN "-" \o NatText(0 - x.v) ELSE NatText(x.v)

\* dict.get(key) with the default forgotten
GetWithoutDefault(d, key, default) == IF key \in DOMAIN d THEN d[key] ELSE PyNone

\* dict.get(key, default)
Get(d, key, default) == IF key \in DOMAIN d THEN d[key] ELSE default

-----------------------------------------------------------------------------
(* backend/models.py: pydantic validation                                  *)

Labels == {"good", "ok", "bad"}

\* a field declared str accepts a str only
IsStr(x) == x.t = "str"

\* a field declared int: ints, bools, whole floats and numeric strings are accepted
IntField(x) ==
    CASE x.t = "int"   -> Ok(x.v)
      [] x.t = "bool"  -> Ok(IF x.v THEN 1 ELSE 0)
      [] x.t = "float" -> IF x.v % 10 = 0 THEN Ok(x.v \div 10) ELSE Raised
      [] x.t = "str"   -> IntOfText(x.v)
      [] OTHER         -> Raised

InRange(r, lo, hi) == r.ok /\ r.v >= lo /\ r.v <= hi

\* Subscore without the ge/le bounds on score
SubscoreUnbounded(d) ==
    IF /\ {"name", "score", "comment"} \subseteq DOMAIN d
       /\ IsStr(d["name"]) /\ IsStr(d["comment"])
       /\ IntField(d["score"]).ok
    THEN Ok([name |-> d["name"].v, score |-> IntField(d["score"]).v,
             comment |-> d["comment"].v])
    ELSE Raised

\* Subscore(**d): name: str, score: int (ge=0, le=5), comment: str
Subscore(d) ==
    IF /\ {"name", "score", "comment"} \subseteq DOMAIN d
       /\ IsStr(d["name"]) /\ IsStr(d["comment"])
       /\ InRange(IntField(d["score"]), 0, 5)
    THEN Ok([name |-> d["name"].v, score |-> IntField(d["score"]).v,
             comment |-> d["comment"].v])
    ELSE Raised

\* Suggestion(**d): title: str, text: str
Suggestion(d) ==
    IF /\ {"title", "text"} \subseteq DOMAIN d
       /\ IsStr(d["title"]) /\ IsStr(d["text"])
    THEN Ok([title |-> d["title"].v, text |-> d["text"].v])
    ELSE Raised

\* an element of a List[Subscore] field: an instance, or a dict to validate
SubscoreItem(x) ==
    CASE x.t = "model" -> Ok(x.v)
      [] x.t = "dict"  -> Subscore(x.v)
      [] OTHER         -> Raised

\* an element of a List[Suggestion] field
SuggestionItem(x) ==
    CASE x.t = "model" -> Ok(x.v)
      [] x.t = "dict"  -> Suggestion(x.v)
      [] OTHER         -> Raised

\* EvaluationResponse(label=, score=, summary=, subscores=, feedback=,
\*                    suggestions=, improved_prompt=)
EvaluationResponse(d) ==
    LET score == IntField(d["score"])
        subs  == d["subscores"]
        fb    == d["feedback"]
        sg    == d["suggestions"]
        ip    == d["improved_prompt"]
    IN  IF /\ IsStr(d["label"]) /\ d["label"].v \in Labels
           /\ InRange(score, 0, 100)
           /\ IsStr(d["summary"])
           /\ subs.t = "list"
           /\ \A i \in 1..Len(subs.v) : SubscoreItem(subs.v[i]).ok
           /\ fb.t = "list"
           /\ \A i \in 1..Len(fb.v) : IsStr(fb.v[i])
           /\ sg.t = "list"
           /\ \A i \in 1..Len(sg.v) : SuggestionItem(sg.v[i]).ok
           /\ ip.t \in {"none", "str"}
        THEN Ok([label           |-> d["label"].v,
                 score           |-> score.v,
                 summary         |-> d["summary"].v,
                 subscores       |-> [i \in 1..Len(subs.v) |-> SubscoreItem(subs.v[i]).v],
                 feedback        |-> [i \in 1..Len(fb.v) |-> fb.v[i].v],
                 suggestions     |-> [i \in 1..Len(sg.v) |-> SuggestionItem(sg.v[i]).v],
                 improved_prompt |-> IF ip.t = "none" THEN Absent ELSE Present(ip.v)])
        ELSE Raised

-----------------------------------------------------------------------------
(* backend/scoring.py: score_prompt and build_improved_prompt              *)
(* (the dashes of the source's messages are written "-" here)              *)

RECURSIVE Join(_, _)
\* sep.join(parts)
Join(parts, sep) ==
    IF parts = <<>> THEN ""
    ELSE IF Len(parts) = 1 THEN parts[1]
    ELSE parts[1] \o sep \o Join(Tail(parts), sep)

\* next(...) with the ceiling, 5, for the default
FirstScoreOrCeiling(subs, name, default) ==
    IF \E i \in 1..Len(subs) : subs[i].name = name
    THEN subs[CHOOSE i \in 1..Len(subs) :
                /\ subs[i].name = name
                /\ \A j \in 1..(i - 1) : subs[j].name # name].score
    ELSE 5

\* next((s for n, s, _ in subs if n == name), default)
FirstScore(subs, name, default) ==
    IF \E i \in 1..Len(subs) : subs[i].name = name
    THEN subs[CHOOSE i \in 1..Len(subs) :
                /\ subs[i].name = name
                /\ \A j \in 1..(i - 1) : subs[j].name # name].score
    ELSE default

build_improved_prompt(p, g, subs) ==
    LET needs_format      == FirstScore(subs, "Constraints & Format", 0) <= 3
        needs_specificity == FirstScore(subs, "Specificity", 0) <= 3
        needs_context     == FirstScore(subs, "Context", 0) <= 3
        gtext == IF g.present /\ g.v # "" THEN g.v
                 ELSE "State your purpose (e.g., for executives)."
        parts ==
            <<"Question: How can I "
                \o (IF ~needs_specificity THEN "best " ELSE "")
                \o "achieve this goal?">>
            \o (IF needs_context
                THEN <<"Context: Briefly include the most relevant background or inputs.">>
                ELSE <<>>)
            \o (IF needs_specificity
                THEN <<"Specifics: Limit to top 3 points and focus on what's actionable.">>
                ELSE <<>>)
            \o (IF needs_format
                THEN <<"Format: Return 5 bullet points and a short summary (<=120 words).">>
                ELSE <<>>)
            \o <<"If information is missing, ask up to 2 clarifying questions before answering.">>
            \o <<"Goal: " \o gtext>>
    IN  Join(parts, "\n\n")

\* the feedback loop with s < 3 for s <= 3
FeedbackOfBelowThree(subs) ==
    LET low == SelectSeq(subs, LAMBDA x : x.score < 3)
    IN  [i \in 1..Len(low) |-> low[i].name \o ": " \o low[i].comment]

\* the feedback loop of score_prompt: one "name: comment" per attribute with s <= 3
FeedbackOf(subs) ==
    LET low == SelectSeq(subs, LAMBDA x : x.score <= 3)
    IN  [i \in 1..Len(low) |-> low[i].name \o ": " \o low[i].comment]

\* the test of a suggestion with s < 3 for s <= 3
AnyBelowThree(subs, name) ==
    \E i \in 1..Len(subs) : subs[i].name = name /\ subs[i].score < 3

\* any(n == name and s <= 3 for n, s, _ in subs)
AnyLow(subs, name) ==
    \E i \in 1..Len(subs) : subs[i].name = name /\ subs[i].score <= 3

Tip(title, text) == [title |-> PyStr(title), text |-> PyStr(text)]

\* the suggestions of score_prompt, as the keyword arguments of each Suggestion(...)
SuggestionsOf(subs) ==
    (IF AnyLow(subs, "Clarity")
       THEN <<Tip("Ask a direct question",
                  "Use a single, specific question (e.g., 'How can I ...?').")>>
       ELSE <<>>)
    \o (IF AnyLow(subs, "Specificity")
       THEN <<Tip("Narrow the focus",
                  "Add audience, topic, and numbers (e.g., 'top 3', 'in 200 words').")>>
       ELSE <<>>)
    \o (IF AnyLow(subs, "Constraints & Format")
       THEN <<Tip("Set expectations",
                  "Request a format (bullets/table/JSON) and length/tone.")>>
       ELSE <<>>)
    \o (IF AnyLow(subs, "Scope & Feasibility")
       THEN <<Tip("Right-size the scope",
                  "Avoid 'everything/anything'; ask for the most relevant parts.")>>
       ELSE <<>>)
    \o (IF AnyLow(subs, "Neutrality")
       THEN <<Tip("Use neutral phrasing",
                  "Prefer 'Compare X and Y' over 'Why is X better?'.")>>
       ELSE <<>>)
    \o (IF AnyLow(subs, "Clarification")
       THEN <<Tip("Invite questions",
                  "Allow 1-2 clarifying questions if information is missing.")>>
       ELSE <<>>)

SummaryOf(label) ==
    IF label = "good" THEN "Strong question-clear, specific, and easy to answer."
    ELSE IF label = "ok"
      THEN "Decent question-add context, specifics, or format to improve."
    ELSE "Vague question-clarify ask, scope, context, and format."

\* score_prompt(prompt, goal): Ok(EvaluationResponse) or Raised
score_prompt(p, g) ==
    LET text        == Strip(p)
        subs        == Subs(text, g)
        score       == OverallScore(subs)
        label       == _label_from_score(score)
        feedback    == FeedbackOf(subs)
        tips        == SuggestionsOf(subs)
        suggestions == [i \in 1..Len(tips) |-> Suggestion(tips[i])]
        improved    == build_improved_prompt(p, g, subs)
        subscores   == [i \in 1..Len(subs) |->
                          Subscore([name    |-> PyStr(subs[i].name),
                                    score   |-> PyInt(subs[i].score),
                                    comment |-> PyStr(subs[i].comment)])]
    IN  IF \/ \E i \in 1..Len(suggestions) : ~suggestions[i].ok
           \/ \E i \in 1..Len(subscores) : ~subscores[i].ok
        THEN Raised
        ELSE EvaluationResponse(
               [label           |-> PyStr(label),
                score           |-> PyInt(score),
                summary         |-> PyStr(SummaryOf(label)),
                subscores       |-> PyList([i \in 1..Len(subscores) |->
                                              PyModel(subscores[i].v)]),
                feedback        |-> PyList([i \in 1..Len(feedback) |->
                                              PyStr(feedback[i])]),
                suggestions     |-> PyList([i \in 1..Len(suggestions) |->
                                              PyModel(suggestions[i].v)]),
                improved_prompt |-> PyStr(improved)])

-----------------------------------------------------------------------------
(* Inputs of score_prompt                                                  *)

NoGoal == Absent

RECURSIVE Repeat(_, _)
\* s * n
Repeat(s, n) ==
    IF n = 0 THEN ""
    ELSE IF n = 1 THEN s
    ELSE Repeat(s, n \div 2) \o Repeat(s, n - (n \div 2))

SqlExample ==
    "Explain the differences between SQL and NoSQL in 5 bullets for a beginner."

\* a prompt with every positive signal and none of the negative ones
RichExample ==
    "Given the data below, how can I list the top 5 risks for the team in 5 bullets"
        \o " so that I can plan? If unsure, ask a clarifying question."

\* the pieces generated prompts are made of: each sets off one rule, or none
Phrases ==
    {"How", "now?", "5", "for", "context:", "given", "in 5 bullets", "Tone",
     "everything", "unclearly", "my goal", "if unsure",
     "tell me more of this topic"}

\* the longest generated prompt, in phrases
MaxPhrases == 2

RECURSIVE PhraseTexts(_)
\* the prompts of exactly n phrases, joined by single spaces
PhraseTexts(n) ==
    IF n = 0 THEN {""}
    ELSE IF n = 1 THEN Phrases
    ELSE {t \o " " \o ph : t \in PhraseTexts(n - 1), ph \in Phrases}

GeneratedPrompts == UNION {PhraseTexts(n) : n \in 0..MaxPhrases}

CannedPrompts ==
    {SqlExample, RichExample, "How do I fix this?",
     "How do SQL and NoSQL differ? Explain in 5 bullets for a beginner.",
     " \t\n ", "  Why is tea better than coffee?\n",
     "obviously everything",
     "context:x given", "top  5", "if word\nmissing", "if any word is missing",
     "ask clarifying questions", "in 5  bullets", "forty bullets?",
     Repeat("word ", 61), Repeat("word ", 60), Repeat("a\n", 7)}

ScoreInputs == GeneratedPrompts \cup CannedPrompts

ScoreGoals == {NoGoal, Present(""), Present("  learn  "), Present("for executives")}

-----------------------------------------------------------------------------
(* The local pipeline on its own: score_prompt applied to one input        *)

NotYet == [kind |-> "pending"]
None == [kind |-> "none"]
Outcome(o) == [kind |-> "outcome", v |-> o]
HttpError(status) == [kind |-> "error", status |-> status]

\* what the caller of a function returning Ok(v) / Raised receives
Returned(r) == IF r.ok THEN Outcome(r.v) ELSE HttpError(500)

\* no call of build_improved_prompt on its own, no call on the session
NoSubs == <<>>
NoCall == [op |-> "none", provider |-> "", state |-> Absent, code |-> Absent, status |-> 0]
NoSession ==
    /\ auth = [enabled |-> FALSE, default_provider |-> ""]
    /\ session = <<>>
    /\ last = NoCall
    /\ before = NoCall

InitScore ==
    /\ enabled = FALSE
    /\ prompt \in ScoreInputs
    /\ goal \in ScoreGoals
    /\ pc = "idle"
    /\ sent = 0
    /\ reply = NotYet
    /\ llm_result = NotYet
    /\ response = NotYet
    /\ subs_arg = NoSubs
    /\ NoSession

ScorePrompt ==
    /\ pc = "idle"
    /\ response' = Returned(score_prompt(prompt, goal))
    /\ pc' = "scored"
    /\ UNCHANGED <<enabled, prompt, goal, sent, reply, llm_result, subs_arg, authVars>>

NextScore == ScorePrompt

SpecScore == InitScore /\ [][NextScore]_vars

-----------------------------------------------------------------------------
(* backend/llm_eval.py: evaluate_with_ollama, from the reply to the POST   *)

\* replies to client.post: the call raises, or an HTTP response arrives
PostRaises(kind) == [kind |-> kind]
Body(v) == [json |-> TRUE, v |-> v]
NotJsonBody == [json |-> FALSE, v |-> PyNone]
Http(status, body) == [kind |-> "http", status |-> status, body |-> body]

\* the first try block without raise_for_status
FetchAnyStatus(r) ==
    IF r.kind # "http" THEN Raised
    ELSE IF ~r.body.json THEN Raised
    ELSE Ok(r.body.v)

\* the first try block: post, raise_for_status, resp.json()
Fetch(r) ==
    IF r.kind # "http" THEN Raised
    ELSE IF r.status < 200 \/ r.status > 299 THEN Raised
    ELSE IF ~r.body.json THEN Raised
    ELSE Ok(r.body.v)

\* json.loads(text): TypeError for a non-str, JSONDecodeError for a malformed one
json_loads(x) == IF x.t = "json" THEN Ok(x.v) ELSE Raised

\* the last try block: the keyword arguments, then EvaluationResponse(...)
Normalize(obj) ==
    IF obj.t # "dict" THEN Raised
    ELSE LET d     == obj.v
             score == PyIntOf(Get(d, "score", PyInt(60)))
         IN  IF ~score.ok THEN Raised
             ELSE EvaluationResponse(
                    [label           |-> PyStr(Lower(PyStrOf(Get(d, "label", PyStr("ok"))))),
                     score           |-> PyInt(score.v),
                     summary         |-> Get(d, "summary", PyStr("")),
                     subscores       |-> Get(d, "subscores", PyList(<<>>)),
                     feedback        |-> Get(d, "feedback", PyList(<<>>)),
                     suggestions     |-> Get(d, "suggestions", PyList(<<>>)),
                     improved_prompt |-> Get(d, "improved_prompt", PyNone)])

\* evaluate_with_ollama once the POST has been answered by r
OllamaResult(r) ==
    LET data == Fetch(r)
    IN  IF ~data.ok THEN None
        ELSE LET text == IF data.v.t = "dict"
                         THEN Get(data.v.v, "response", PyNone)
                         ELSE PyNone
             IN  IF ~Truthy(text) THEN None
                 ELSE LET obj == json_loads(text)
                      IN  IF ~obj.ok THEN None
                          ELSE LET built == Normalize(obj.v)
                               IN  IF built.ok THEN Outcome(built.v) ELSE None

-----------------------------------------------------------------------------
(* Replies of the Ollama endpoint                                          *)

EmptyDict == <<>>
Single(k, v) == [x \in {k} |-> v]
Merge(f, g) == [k \in DOMAIN f \cup DOMAIN g |-> IF k \in DOMAIN g THEN g[k] ELSE f[k]]

GoodSubscore ==
    PyDict([name |-> PyStr("Clarity"), score |-> PyInt(4), comment |-> PyStr("Clear")])
GoodSuggestion ==
    PyDict([title |-> PyStr("Add context"), text |-> PyStr("Say who it is for.")])

LabelValues ==
    {PyStr("good"), PyStr("ok"), PyStr("bad"), PyStr("GOOD"), PyStr("great"),
     PyStr(""), PyNone, PyInt(1)}
ScoreValues ==
    {PyInt(0), PyInt(44), PyInt(45), PyInt(74), PyInt(75), PyInt(100), PyInt(101),
     PyInt(0 - 1), PyStr("80"), PyStr(" 7 "), PyStr("abc"), PyStr("59.9"),
     PyFloat(599), PyFloat(1009), PyFloat(0 - 5), PyNone, PyBool(TRUE), PyList(<<>>)}

OtherValues ==
    [summary |->
        {PyStr("Reasonable question."), PyNone, PyInt(3)},
     subscores |->
        {PyList(<<>>), PyList(<<GoodSubscore>>),
         PyList(<<GoodSubscore,
                  PyDict([name |-> PyStr("Context"), score |-> PyInt(6),
                          comment |-> PyStr("Rich")])>>),
         PyList(<<PyDict([name |-> PyStr("Context"), score |-> PyInt(0 - 1),
                          comment |-> PyStr("None")])>>),
         PyList(<<PyDict([name |-> PyStr("Context"), score |-> PyStr("3"),
                          comment |-> PyStr("Some")])>>),
         PyList(<<PyDict([name |-> PyStr("Context"), score |-> PyFloat(25),
                          comment |-> PyStr("Some")])>>),
         PyList(<<PyDict([name |-> PyStr("Context"), score |-> PyInt(3)])>>),
         PyList(<<PyInt(3)>>), PyStr("Clarity 4"), PyNone},
     feedback |->
        {PyList(<<>>), PyList(<<PyStr("Add context")>>),
         PyList(<<PyStr("Add context"), PyInt(5)>>), PyStr("Add context"), PyNone},
     suggestions |->
        {PyList(<<>>), PyList(<<GoodSuggestion>>),
         PyList(<<PyDict([title |-> PyStr("Add context")])>>),
         PyList(<<PyStr("Add context")>>), PyNone},
     improved_prompt |->
        {PyStr("How can I compare SQL and NoSQL?"), PyNone, PyInt(5), PyList(<<>>)}]

FullPayload ==
    [label           |-> PyStr("good"),
     score           |-> PyInt(80),
     summary         |-> PyStr("Reasonable question."),
     subscores       |-> PyList(<<GoodSubscore>>),
     feedback        |-> PyList(<<PyStr("Add context")>>),
     suggestions     |-> PyList(<<GoodSuggestion>>),
     improved_prompt |-> PyStr("How can I compare SQL and NoSQL?")]

\* label and score: every combination of a value or no key at all
CorePayloads ==
    {Merge(l, sc) :
        l  \in {EmptyDict} \cup {Single("label", v) : v \in LabelValues},
        sc \in {EmptyDict} \cup {Single("score", v) : v \in ScoreValues}}

\* how many of the other fields a generated payload carries at most
MaxExtraFields == 1

RECURSIVE Extras(_)
\* the assignments of exactly n of the other fields
Extras(n) ==
    IF n = 0 THEN {EmptyDict}
    ELSE UNION {UNION {{Merge(e, Single(k, v)) : v \in OtherValues[k]} :
                          k \in (DOMAIN OtherValues) \ (DOMAIN e)} :
                   e \in Extras(n - 1)}

ExtraPayloads ==
    {Merge(b, e) :
        b \in {EmptyDict, [label |-> PyStr("ok"), score |-> PyInt(50)]},
        e \in UNION {Extras(n) : n \in 1..MaxExtraFields}}

Payloads == CorePayloads \cup ExtraPayloads \cup {FullPayload}

\* a 200 response of /api/generate whose "response" field is x
Generated(x) == Http(200, Body(PyDict([response |-> x, done |-> PyBool(TRUE)])))

TransportFailures == {PostRaises("connect_error"), PostRaises("timeout")}
StatusFailures ==
    {Http(500, Body(PyDict([response |-> Json(PyDict(FullPayload))]))),
     Http(500, NotJsonBody), Http(404, Body(PyDict([error |-> PyStr("model not found")]))),
     Http(302, NotJsonBody)}
BodyFailures ==
    {Http(200, NotJsonBody), Http(200, Body(PyList(<<>>))),
     Http(200, Body(PyDict([done |-> PyBool(TRUE)]))),
     Generated(PyStr("")), Generated(PyNone)}
DecodeFailures == {Generated(PyStr("Sure! Here is my evaluation")), Generated(PyInt(5))}
NonObjects ==
    {Generated(Json(x)) : x \in {PyNone, PyInt(80), PyStr("good"), PyList(<<>>),
                                 PyList(<<PyDict(FullPayload)>>)}}
Decoded == {Generated(Json(PyDict(p))) : p \in Payloads}

Replies ==
    TransportFailures \cup StatusFailures \cup BodyFailures \cup DecodeFailures
        \cup NonObjects \cup Decoded

-----------------------------------------------------------------------------
(* backend/app.py: POST /api/evaluate                                      *)

MaxPromptLen == 4000

RequestPrompts ==
    {"", " \n ", "How do I fix this?", SqlExample, "obviously everything",
     "How?" \o Repeat(" ", MaxPromptLen - 4), "How?" \o Repeat(" ", MaxPromptLen - 3),
     Repeat("a", MaxPromptLen + 1)}
RequestGoals == {NoGoal, Present("for executives")}

Init ==
    /\ enabled \in BOOLEAN
    /\ prompt = ""
    /\ goal = NoGoal
    /\ pc = "idle"
    /\ sent = 0
    /\ reply = NotYet
    /\ llm_result = NotYet
    /\ response = NotYet
    /\ subs_arg = NoSubs
    /\ NoSession

\* evaluate_prompt with len(body.prompt) >= 4000 for > 4000
EvaluateStartOffByOne(p, g) ==
    /\ pc = "idle"
    /\ prompt' = p
    /\ goal' = g
    /\ UNCHANGED <<enabled, reply, subs_arg, authVars>>
    /\ IF p = "" \/ Strip(p) = "" \/ Len(p) >= MaxPromptLen
       THEN /\ response' = HttpError(422)
            /\ pc' = "done"
            /\ UNCHANGED <<sent, llm_result>>
       ELSE IF ~enabled
       THEN /\ llm_result' = None
            /\ response' = Returned(score_prompt(p, g))
            /\ pc' = "done"
            /\ UNCHANGED sent
       ELSE /\ sent' = sent + 1
            /\ pc' = "awaiting"
            /\ UNCHANGED <<llm_result, response>>

\* evaluate_prompt(body) up to its first suspension: the validation, then
\* evaluate_with_ollama up to the POST (or, when disabled, all the way through)
EvaluateStart(p, g) ==
    /\ pc = "idle"
    /\ prompt' = p
    /\ goal' = g
    /\ UNCHANGED <<enabled, reply, subs_arg, authVars>>
    /\ IF p = "" \/ Strip(p) = "" \/ Len(p) > MaxPromptLen
       THEN /\ response' = HttpError(422)
            /\ pc' = "done"
            /\ UNCHANGED <<sent, llm_result>>
       ELSE IF ~enabled
       THEN /\ llm_result' = None
            /\ response' = Returned(score_prompt(p, g))
            /\ pc' = "done"
            /\ UNCHANGED sent
       ELSE /\ sent' = sent + 1
            /\ pc' = "awaiting"
            /\ UNCHANGED <<llm_result, response>>

\* evaluate_with_ollama posting a second time after a failed reply
ExternalReplyRetrying(r) ==
    /\ pc = "awaiting"
    /\ reply' = r
    /\ IF OllamaResult(r).kind = "none" /\ sent < 2
       THEN /\ sent' = sent + 1
            /\ UNCHANGED <<llm_result, response, pc>>
       ELSE /\ llm_result' = OllamaResult(r)
            /\ response' = IF llm_result'.kind # "none" THEN llm_result'
                           ELSE Returned(score_prompt(prompt, goal))
            /\ pc' = "done"
            /\ UNCHANGED sent
    /\ UNCHANGED <<enabled, prompt, goal, subs_arg, authVars>>

\* the POST is answered by r: the rest of evaluate_with_ollama, then the
\* rest of evaluate_prompt
ExternalReply(r) ==
    /\ pc = "awaiting"
    /\ reply' = r
    /\ llm_result' = OllamaResult(r)
    /\ response' = IF llm_result'.kind # "none" THEN llm_result'
                   ELSE Returned(score_prompt(prompt, goal))
    /\ pc' = "done"
    /\ UNCHANGED <<enabled, prompt, goal, sent, subs_arg, authVars>>

\* a request arrives
Request == pc = "idle" /\ \E p \in RequestPrompts, g \in RequestGoals : EvaluateStart(p, g)

\* the endpoint, or the transport, answers the POST
Answer == pc = "awaiting" /\ \E r \in Replies : ExternalReply(r)

Next == Request \/ Answer

Spec == Init /\ [][Next]_vars

-----------------------------------------------------------------------------
(* Properties of the local pipeline (checked under SpecScore)              *)

Scored == pc = "scored"
Range(q) == {q[i] : i \in 1..Len(q)}
ScoresOf(o) == [i \in 1..Len(o.subscores) |-> o.subscores[i].score]
Min(S) == CHOOSE x \in S : \A y \in S : x <= y

\* C1: whatever the text and the goal, score_prompt returns an outcome whose
\* score is an integer in 0..100 and whose label is the threshold class of that
\* score: good iff score >= 75, ok iff 45 <= score < 75, bad iff score < 45.
C1_ScoreAndLabel ==
    Scored =>
        /\ response.kind = "outcome"
        /\ response.v.score \in 0..100
        /\ response.v.label \in {"good", "ok", "bad"}
        /\ response.v.label = "good" <=> response.v.score >= 75
        /\ response.v.label = "ok" <=> (response.v.score >= 45 /\ response.v.score < 75)
        /\ response.v.label = "bad" <=> response.v.score < 45

\* a prompt scored exactly at a threshold
C1_Witness ==
    /\ Scored
    /\ response.kind = "outcome"
    /\ response.v.score = 75
    /\ response.v.label = "good"

C8_Original ==
    (Scored /\ prompt = SqlExample /\ ~goal.present) =>
        /\ response.kind = "outcome"
        /\ response.v.label = "good"
        /\ response.v.score >= 75

\* C8 as amended: the SQL/NoSQL example with no goal is labelled "ok" with
\* score 70: it has no question mark and no question word (Clarity 3), no
\* context marker (Context 2) and no outcome or clarification phrase (3 and 3).
C8_SqlExampleIsOk ==
    (Scored /\ prompt = SqlExample /\ ~goal.present) =>
        /\ response.kind = "outcome"
        /\ response.v.label = "ok"
        /\ response.v.score = 70
        /\ ScoresOf(response.v) = <<3, 4, 2, 5, 4, 4, 3, 3>>

C8_Witness == Scored /\ prompt = SqlExample /\ ~goal.present

\* the text holds none of the signals the rules look for
NoSignals(text) ==
    /\ ~Contains(text, "?")
    /\ \A w \in question_words : ~Search(Words({w}), text)
    /\ \A pat \in {SpecificityQuantity, SpecificityTopic, ContextMarkers,
                   FormatLength, FormatKind, FormatTone, BroadScope,
                   LeadingPhrases, OutcomePhrases, ClarifyPhrases} :
          ~Search(pat, text)

\* C9 as stated: for an empty text and for any text without signals,
\* score_prompt completes and every rule returns the lowest score it can return.
C9_Original ==
    (Scored /\ NoSignals(Strip(prompt))) =>
        /\ response.kind = "outcome"
        /\ \A i \in 1..Len(response.v.subscores) :
             response.v.subscores[i].score = Min(RuleReturns[i])

\* C9 as amended: for an empty text and for any text without signals,
\* score_prompt completes; Constraints & Format, Outcome Orientation and
\* Clarification return their lowest scores (2, 3, 3); Specificity returns its
\* lowest (2) unless the goal has 8 or more characters after trimming (then 3);
\* Clarity and Scope & Feasibility return their lowest (2) only when the text
\* has fewer than 6 words (otherwise 3 and 4); Context returns its lowest (2)
\* unless the text has more than 60 words (then 3); Neutrality returns 4, the
\* highest score it can return.
C9_SignalFreeScores ==
    (Scored /\ NoSignals(Strip(prompt))) =>
        /\ response.kind = "outcome"
        /\ LET words == WordCount(Strip(prompt))
               long_goal == goal.present /\ Len(Strip(goal.v)) >= 8
           IN  ScoresOf(response.v) =
                 << IF words < 6 THEN 2 ELSE 3,
                    IF long_goal THEN 3 ELSE 2,
                    IF words > 60 THEN 3 ELSE 2,
                    2,
                    IF words < 6 THEN 2 ELSE 4,
                    4, 3, 3 >>

\* a whitespace-only prompt has been scored
C9_Witness ==
    /\ Scored
    /\ prompt # ""
    /\ Strip(prompt) = ""
    /\ response.kind = "outcome"

\* the score of the attribute a feedback entry "name: comment" is about
EntryScores(o, e) ==
    {s.score : s \in {x \in Range(o.subscores) : x.name \o ": " \o x.comment = e}}

\* C10 as stated: feedback holds only entries of attributes below the ceiling
\* of 5, and is ordered worst-first, by ascending attribute score (the cap is
\* left out: the claim names no number).
C10_Original ==
    Scored =>
        /\ response.kind = "outcome"
        /\ \A i \in 1..Len(response.v.feedback) :
             /\ EntryScores(response.v, response.v.feedback[i]) # {}
             /\ \A x \in EntryScores(response.v, response.v.feedback[i]) : x < 5
        /\ \A i, j \in 1..Len(response.v.feedback) :
             i < j => \A x \in EntryScores(response.v, response.v.feedback[i]),
                         y \in EntryScores(response.v, response.v.feedback[j]) : x <= y

\* C10 as amended: feedback holds one entry "name: comment" for each attribute
\* whose score is at most 3 (so below the ceiling of 5) and no other entry, in
\* the rubric's order and not by score; its length is bounded only by the
\* number of attributes, eight.
C10_FeedbackInRubricOrder ==
    Scored =>
        /\ response.kind = "outcome"
        /\ LET subs == response.v.subscores
               low  == {i \in 1..Len(subs) : subs[i].score <= 3}
               nth(k) == CHOOSE i \in low : Cardinality({j \in low : j < i}) = k - 1
           IN  /\ Len(response.v.feedback) = Cardinality(low)
               /\ \A k \in 1..Len(response.v.feedback) :
                    response.v.feedback[k] =
                        subs[nth(k)].name \o ": " \o subs[nth(k)].comment

\* a feedback list that is not worst-first: a score of 3 listed before a 2
C10_Witness ==
    /\ Scored
    /\ response.kind = "outcome"
    /\ \E i, j \in 1..Len(response.v.feedback) :
         /\ i < j
         /\ EntryScores(response.v, response.v.feedback[i]) = {3}
         /\ EntryScores(response.v, response.v.feedback[j]) = {2}

\* the attributes score_prompt has a suggestion for, in the order of its
\* if statements, and the title of each one's suggestion
TippedAttributes ==
    <<"Clarity", "Specificity", "Constraints & Format", "Scope & Feasibility",
      "Neutrality", "Clarification">>
TipTitles ==
    <<"Ask a direct question", "Narrow the focus", "Set expectations",
      "Right-size the scope", "Use neutral phrasing", "Invite questions">>

\* the attributes of an outcome that need work: score <= 3 of 5
LowAttributes(o) == {x.name : x \in {y \in Range(o.subscores) : y.score <= 3}}

\* C11 as stated: the suggestions are in one-to-one correspondence with the
\* underperforming attributes (score <= 3): one entry for each of them, none
\* for any other attribute, none twice.
C11_Original ==
    Scored =>
        /\ response.kind = "outcome"
        /\ LET sg == response.v.suggestions
           IN  /\ \A i, j \in 1..Len(sg) : sg[i] = sg[j] => i = j
               /\ Len(sg) = Cardinality(LowAttributes(response.v))

\* C11 as amended: suggestions holds exactly one entry for each attribute with
\* score <= 3 among Clarity, Specificity, Constraints & Format, Scope &
\* Feasibility, Neutrality and Clarification, in that order, and no other
\* entry; Context and Outcome Orientation never have a suggestion, whatever
\* their scores.
C11_SuggestionsForSixAttributes ==
    Scored =>
        /\ response.kind = "outcome"
        /\ LET sg   == response.v.suggestions
               low  == {k \in 1..Len(TippedAttributes) :
                          TippedAttributes[k] \in LowAttributes(response.v)}
               nth(n) == CHOOSE k \in low : Cardinality({j \in low : j < k}) = n - 1
           IN  /\ Len(sg) = Cardinality(low)
               /\ \A n \in 1..Len(sg) : sg[n].title = TipTitles[nth(n)]
               /\ \A i, j \in 1..Len(sg) : sg[i].title = sg[j].title => i = j

\* Context and Outcome Orientation need work and have no suggestion, while
\* Clarity scores exactly 3 and has one
C11_Witness ==
    /\ Scored
    /\ response.kind = "outcome"
    /\ {"Context", "Outcome Orientation"} \subseteq LowAttributes(response.v)
    /\ \E x \in Range(response.v.subscores) : x.name = "Clarity" /\ x.score = 3
    /\ Len(response.v.suggestions) >= 1
    /\ response.v.suggestions[1].title = "Ask a direct question"
    /\ Len(response.v.suggestions) < Cardinality(LowAttributes(response.v))

\* t has s as a substring
HasSubstring(t, s) ==
    \E i \in 1..(Len(t) - Len(s) + 1) : SubSeq(t, i, i + Len(s) - 1) = s

RECURSIVE CollapseBetween(_, _, _)
\* characters lo..hi of t, every run of whitespace replaced by one space (a
\* run is replaced at its last character)
CollapseBetween(t, lo, hi) ==
    IF lo > hi THEN ""
    ELSE IF lo = hi
      THEN IF Ch(t, lo) \notin Whitespace THEN Ch(t, lo)
           ELSE IF lo < Len(t) /\ Ch(t, lo + 1) \notin Whitespace THEN " "
           ELSE ""
    ELSE LET mid == (lo + hi) \div 2
         IN  CollapseBetween(t, lo, mid) \o CollapseBetween(t, mid + 1, hi)

\* the cleaned text: trimmed, repeated blank characters collapsed to one space
Cleaned(t) == CollapseBetween(Strip(t), 1, Len(Strip(t)))

\* C12: the improved text of the local pipeline is a non-empty string, and
\* whenever the original text is non-empty (after trimming) the improved text
\* contains the cleaned, whitespace-normalized original text.
C12_Original ==
    Scored =>
        /\ response.kind = "outcome"
        /\ response.v.improved_prompt.present
        /\ response.v.improved_prompt.v # ""
        /\ Strip(prompt) # "" =>
              HasSubstring(response.v.improved_prompt.v, Cleaned(prompt))

-----------------------------------------------------------------------------
(* Properties of evaluate_prompt with the external evaluator (under Spec)  *)

Done == pc = "done"
Answered == Done /\ reply # NotYet

\* the reply is a 2xx response whose "response" field holds a JSON document
HasPayload(r) ==
    /\ r.kind = "http"
    /\ r.status \in 200..299
    /\ r.body.json
    /\ r.body.v.t = "dict"
    /\ "response" \in DOMAIN r.body.v.v
    /\ r.body.v.v["response"].t = "json"

\* the value that document decodes to
PayloadOf(r) == r.body.v.v["response"].v

BadLabel(d) ==
    "label" \in DOMAIN d /\ Lower(PyStrOf(d["label"])) \notin {"good", "ok", "bad"}
BadScore(d) ==
    "score" \in DOMAIN d
        /\ (~PyIntOf(d["score"]).ok \/ PyIntOf(d["score"]).v \notin 0..100)
BadSummary(d) == "summary" \in DOMAIN d /\ d["summary"].t # "str"
BadSubscores(d) ==
    "subscores" \in DOMAIN d
        /\ \/ d["subscores"].t # "list"
           \/ \E x \in Range(d["subscores"].v) :
                \/ x.t # "dict"
                \/ ~({"name", "score", "comment"} \subseteq DOMAIN x.v)
                \/ x.v["name"].t # "str"
                \/ x.v["comment"].t # "str"
                \/ ~IntField(x.v["score"]).ok
                \/ IntField(x.v["score"]).v \notin 0..5
BadFeedback(d) ==
    "feedback" \in DOMAIN d
        /\ \/ d["feedback"].t # "list"
           \/ \E x \in Range(d["feedback"].v) : x.t # "str"
BadSuggestions(d) ==
    "suggestions" \in DOMAIN d
        /\ \/ d["suggestions"].t # "list"
           \/ \E x \in Range(d["suggestions"].v) :
                \/ x.t # "dict"
                \/ ~({"title", "text"} \subseteq DOMAIN x.v)
                \/ x.v["title"].t # "str"
                \/ x.v["text"].t # "str"
BadImprovedPrompt(d) ==
    "improved_prompt" \in DOMAIN d /\ d["improved_prompt"].t \notin {"str", "none"}

\* some field of the decoded payload cannot be coerced or validated
SchemaFailure(obj) ==
    \/ obj.t # "dict"
    \/ BadLabel(obj.v) \/ BadScore(obj.v) \/ BadSummary(obj.v)
    \/ BadSubscores(obj.v) \/ BadFeedback(obj.v) \/ BadSuggestions(obj.v)
    \/ BadImprovedPrompt(obj.v)

\* the ways the external call can fail
ExternalFailure(r) ==
    \/ r.kind \in {"connect_error", "timeout"}
    \/ r.kind = "http" /\ r.status \notin 200..299
    \/ r.kind = "http" /\ r.status \in 200..299 /\ ~HasPayload(r)
    \/ HasPayload(r) /\ SchemaFailure(PayloadOf(r))

\* C2: when the external evaluator is enabled and its call fails in any way
\* (transport error or timeout, non-2xx status, missing or empty response
\* field, JSON decode failure, schema or coercion failure), evaluate_prompt
\* raises no error and returns exactly what score_prompt returns for the same
\* prompt and goal.
C2_FailureFallsBack ==
    (Answered /\ ExternalFailure(reply)) =>
        /\ response.kind = "outcome"
        /\ score_prompt(prompt, goal).ok
        /\ response.v = score_prompt(prompt, goal).v

\* an HTTP 500 has been answered by the local outcome
C2_Witness ==
    /\ Answered
    /\ reply.kind = "http"
    /\ reply.status = 500
    /\ response.kind = "outcome"
    /\ response.v.subscores # <<>>

\* C3: one evaluation call sends no request when the external evaluator is
\* disabled and at most one when it is enabled; after a failed or timed-out
\* request the fallback runs without a second request.
C3_AtMostOneRequest ==
    /\ sent \in {0, 1}
    /\ ~enabled => sent = 0
    /\ pc = "awaiting" => sent = 1
    /\ (Answered /\ ExternalFailure(reply)) => (sent = 1 /\ response.kind = "outcome")

\* a timed-out request followed by the fallback, one request sent
C3_Witness ==
    /\ Answered
    /\ reply.kind = "timeout"
    /\ sent = 1
    /\ response.kind = "outcome"

\* C4: the external path is all-or-nothing: when any one field of the decoded
\* payload cannot be coerced or validated, or the payload is no object,
\* evaluate_with_ollama returns None, never an outcome built from the fields
\* that were valid.
C4_AllOrNothing ==
    (Answered /\ HasPayload(reply) /\ SchemaFailure(PayloadOf(reply))) =>
        llm_result = None

\* a payload with a valid label and score and one bad subscore was refused
C4_Witness ==
    /\ Answered
    /\ HasPayload(reply)
    /\ PayloadOf(reply).t = "dict"
    /\ ~BadLabel(PayloadOf(reply).v) /\ "label" \in DOMAIN PayloadOf(reply).v
    /\ ~BadScore(PayloadOf(reply).v) /\ "score" \in DOMAIN PayloadOf(reply).v
    /\ BadSubscores(PayloadOf(reply).v)
    /\ llm_result = None

\* C5 as stated: every outcome evaluate_prompt returns, external or local, has
\* a label in {good, ok, bad}, a score in 0..100 and the label the thresholds
\* give that score.
C5_Original ==
    (Done /\ response.kind = "outcome") =>
        /\ response.v.label \in {"good", "ok", "bad"}
        /\ response.v.score \in 0..100
        /\ response.v.label = "good" <=> response.v.score >= 75
        /\ response.v.label = "ok" <=> (response.v.score >= 45 /\ response.v.score < 75)
        /\ response.v.label = "bad" <=> response.v.score < 45

\* C6: when the decoded payload is an object whose present fields are all
\* valid, the outcome is accepted and every absent field is defaulted: label
\* "ok", score 60, subscores, feedback and suggestions empty, improved_prompt
\* absent.
C6_AbsentFieldsDefaulted ==
    (Answered /\ HasPayload(reply) /\ ~SchemaFailure(PayloadOf(reply))) =>
        LET d == PayloadOf(reply).v
        IN  /\ llm_result.kind = "outcome"
            /\ response = llm_result
            /\ "label" \notin DOMAIN d => response.v.label = "ok"
            /\ "score" \notin DOMAIN d => response.v.score = 60
            /\ "subscores" \notin DOMAIN d => response.v.subscores = <<>>
            /\ "feedback" \notin DOMAIN d => response.v.feedback = <<>>
            /\ "suggestions" \notin DOMAIN d => response.v.suggestions = <<>>
            /\ "improved_prompt" \notin DOMAIN d => response.v.improved_prompt = Absent

\* the empty object was accepted with every default
C6_Witness ==
    /\ Answered
    /\ HasPayload(reply)
    /\ PayloadOf(reply).t = "dict"
    /\ DOMAIN PayloadOf(reply).v = {}
    /\ response.kind = "outcome"
    /\ response.v.label = "ok"
    /\ response.v.score = 60

-----------------------------------------------------------------------------
(* Properties of the validation of evaluate_prompt (under Spec)            *)

Arrived == pc # "idle"
Rejected == pc = "done" /\ response = HttpError(422)
\* neither evaluate_with_ollama nor score_prompt was called
NothingInvoked == sent = 0 /\ reply = NotYet /\ llm_result = NotYet
\* evaluate_with_ollama was called: it returned, or its POST is in flight
Evaluating ==
    \/ pc = "awaiting" /\ sent = 1
    \/ pc = "done" /\ llm_result # NotYet /\ response.kind = "outcome"

\* C13 as stated: a request is rejected with 422, before the external
\* evaluator or the local pipeline is invoked, iff its text after trimming is
\* empty or longer than 4000 characters; every other request is evaluated.
C13_Original ==
    Arrived =>
        /\ Rejected <=> (Strip(prompt) = "" \/ Len(Strip(prompt)) > MaxPromptLen)
        /\ Rejected => NothingInvoked
        /\ ~Rejected => Evaluating

\* C13 as amended: a request is rejected with 422, before the external
\* evaluator or the local pipeline is invoked, iff its text is empty after
\* trimming or its text as received, untrimmed, is longer than 4000
\* characters; every other request is evaluated.
C13_RejectedOnRawLength ==
    Arrived =>
        /\ Rejected <=> (Strip(prompt) = "" \/ Len(prompt) > MaxPromptLen)
        /\ Rejected => NothingInvoked
        /\ ~Rejected => Evaluating

\* a text of 4 characters followed by 3997 blanks is rejected
C13_Witness ==
    /\ Rejected
    /\ Len(prompt) > MaxPromptLen
    /\ Strip(prompt) # ""
    /\ Len(Strip(prompt)) <= MaxPromptLen

-----------------------------------------------------------------------------
(* build_improved_prompt on its own: applied to one list of results        *)

\* one (name, score, comment) tuple of subs
Sub(name, score) == [name |-> name, score |-> score, comment |-> "because"]

\* the entry of one attribute in a list of results: missing, or one tuple
\* with a score of 0..5
EntriesOf(name) == {<<>>} \cup {<<Sub(name, n)>> : n \in 0..5}

RECURSIVE Reverse(_)
Reverse(q) == IF q = <<>> THEN <<>> ELSE Reverse(Tail(q)) \o <<q[1]>>

\* lists of results with unique names: Clarity, then each of Specificity,
\* Context and Constraints & Format present or missing, in the rubric's
\* order or in the reverse order
SubsInRubricOrder ==
    {<<Sub("Clarity", 4)>> \o s \o c \o f :
        s \in EntriesOf("Specificity"), c \in EntriesOf("Context"),
        f \in EntriesOf("Constraints & Format")}
SubsInputs == SubsInRubricOrder \cup {Reverse(q) : q \in SubsInRubricOrder}

Text(t) == [kind |-> "text", v |-> t]

InitImprove ==
    /\ enabled = FALSE
    /\ prompt = "How do I fix this?"
    /\ goal \in ScoreGoals
    /\ pc = "idle"
    /\ sent = 0
    /\ reply = NotYet
    /\ llm_result = NotYet
    /\ response = NotYet
    /\ subs_arg \in SubsInputs
    /\ NoSession

BuildImproved ==
    /\ pc = "idle"
    /\ response' = Text(build_improved_prompt(prompt, goal, subs_arg))
    /\ pc' = "built"
    /\ UNCHANGED <<enabled, prompt, goal, sent, reply, llm_result, subs_arg, authVars>>

NextImprove == BuildImproved

SpecImprove == InitImprove /\ [][NextImprove]_vars

-----------------------------------------------------------------------------
(* Properties of build_improved_prompt (checked under SpecImprove)         *)

Built == pc = "built"

\* the paragraphs of t: its parts between blank lines ("\n\n")
Paragraphs(t) ==
    LET seps == {i \in 1..(Len(t) - 1) : SubSeq(t, i, i + 1) = "\n\n"}
        sep(k) == CHOOSE i \in seps : Cardinality({j \in seps : j < i}) = k - 1
    IN  [k \in 1..(Cardinality(seps) + 1) |->
            SubSeq(t,
                   IF k = 1 THEN 1 ELSE sep(k - 1) + 2,
                   IF k = Cardinality(seps) + 1 THEN Len(t) ELSE sep(k) - 1)]

StartsWith(t, pre) == Len(t) >= Len(pre) /\ SubSeq(t, 1, Len(pre)) = pre

\* the attribute needs work: its score is <= 3, or it is missing from subs
NeedsWork(name) ==
    \A i \in 1..Len(subs_arg) : subs_arg[i].name = name => subs_arg[i].score <= 3

\* C14: the improved prompt is the Question line, then the Context clause iff
\* Context needs work (score <= 3, or missing from the results), the Specifics
\* clause iff Specificity does, the Format clause iff Constraints & Format
\* does, each at most once and in that order, then the clarifying-questions
\* line and the Goal line, which are always there.
C14_RemediationClauses ==
    Built =>
        LET parts == Paragraphs(response.v)
            n     == Len(parts)
            due   == (IF NeedsWork("Context") THEN <<"Context: ">> ELSE <<>>)
                     \o (IF NeedsWork("Specificity") THEN <<"Specifics: ">> ELSE <<>>)
                     \o (IF NeedsWork("Constraints & Format") THEN <<"Format: ">> ELSE <<>>)
        IN  /\ n = Len(due) + 3
            /\ StartsWith(parts[1], "Question: ")
            /\ \A k \in 1..Len(due) : StartsWith(parts[k + 1], due[k])
            /\ StartsWith(parts[n - 1], "If information is missing, ask up to 2 clarifying questions")
            /\ StartsWith(parts[n], "Goal: ")

\* Context is missing from the results and its clause is there, Specificity
\* scores 4 and its clause is not, Constraints & Format scores 3 and its
\* clause follows the Context clause
C14_Witness ==
    /\ Built
    /\ \A i \in 1..Len(subs_arg) : subs_arg[i].name # "Context"
    /\ \E i \in 1..Len(subs_arg) :
         subs_arg[i].name = "Specificity" /\ subs_arg[i].score = 4
    /\ \E i \in 1..Len(subs_arg) :
         subs_arg[i].name = "Constraints & Format" /\ subs_arg[i].score = 3
    /\ Len(Paragraphs(response.v)) = 5
    /\ StartsWith(Paragraphs(response.v)[2], "Context: ")
    /\ StartsWith(Paragraphs(response.v)[3], "Format: ")

-----------------------------------------------------------------------------
(* The range of the local score (checked under SpecScore)                  *)

RECURSIVE Sum(_)
Sum(q) == IF q = <<>> THEN 0 ELSE q[1] + Sum(Tail(q))

C15_WitnessLowest ==
    /\ Scored
    /\ response.kind = "outcome"
    /\ Sum(ScoresOf(response.v)) = 18
    /\ response.v.score = 45
    /\ response.v.label = "ok"

-----------------------------------------------------------------------------
(* backend/auth.py: the OIDC login flow on one session.  request.session   *)
(* is a dict; each call below is one request on that session, run to its   *)
(* response.  A str that may be None is "" when it is None.                *)

SESSION_USER_KEY == "user"
SESSION_STATE_KEY == "oauth_state"
SESSION_NONCE_KEY == "oauth_nonce"
SESSION_PROVIDER_KEY == "oauth_provider"

\* cfg.auth.providers: the configured names (OIDCProvider.name is the key)
Providers == {"keycloak", "adfs"}
\* cfg.auth.default_provider: None, a configured name, or one not configured
DefaultProviders == {"", "keycloak", "gone"}
\* the provider names a request may carry ("" for none)
ProviderNames == Providers \cup {"", "other"}

\* the values secrets.token_urlsafe(16) may return: any of them, never ""
Tokens == {"tokA", "tokB"}

\* the state and code query parameters a callback may carry
QueryStates == {Absent, Present("")} \cup {Present(t) : t \in Tokens}
QueryCodes == {Absent, Present(""), Present("code")}

\* the claims of a validated ID token
IdClaims ==
    {[sub |-> "u1", email |-> "a@x.org", name |-> "Ann", given_name |-> "A",
      preferred_username |-> "ann"],
     [sub |-> "u2", email |-> "", name |-> "", given_name |-> "Bo",
      preferred_username |-> ""]}

\* what the identity provider does to the requests of one call
LoginOutcomes == {"ok", "unreachable", "no_authorization_endpoint"}
CallbackOutcomes ==
    {"ok", "unreachable", "no_token_endpoint", "token_refused", "id_token_invalid"}

\* d[k] = v
SetKey(d, k, v) == Merge(d, Single(k, v))
\* d.pop(k, None)
Pop(d, k) ==
    IF DOMAIN d \ {k} = {} THEN <<>> ELSE [x \in DOMAIN d \ {k} |-> d[x]]
\* d.get(k) of a str value, "" standing for None
GetStr(d, k) == IF k \in DOMAIN d THEN d[k] ELSE ""

\* _resolve_provider(cfg, name): the provider's name, or the status raised
_resolve_provider(name) ==
    IF name = ""
    THEN IF auth.default_provider # "" /\ auth.default_provider \in Providers
         THEN [ok |-> TRUE, name |-> auth.default_provider, status |-> 0]
         ELSE [ok |-> FALSE, name |-> "", status |-> 400]
    ELSE IF name \in Providers
         THEN [ok |-> TRUE, name |-> name, status |-> 0]
         ELSE [ok |-> FALSE, name |-> "", status |-> 404]

Call(op, provider, state, code, status) ==
    [op |-> op, provider |-> provider, state |-> state, code |-> code, status |-> status]

\* the end of a call: its status is recorded, the session is as given
Respond(call, sess) ==
    /\ session' = sess
    /\ last' = call
    /\ before' = IF last.op = "callback" /\ last.status = 302 THEN last ELSE NoCall
    /\ UNCHANGED <<auth, evalVars, subs_arg>>

\* start_login(request, cfg, provider_name)
start_login(provider_name, idp, state, nonce) ==
    LET call(status) == Call("login", provider_name, Absent, Absent, status)
        provider == _resolve_provider(provider_name)
    IN  IF ~auth.enabled THEN Respond(call(404), session)
        ELSE IF ~provider.ok THEN Respond(call(provider.status), session)
        ELSE IF idp # "ok" THEN Respond(call(500), session)
        ELSE Respond(call(302),
                     SetKey(SetKey(SetKey(session, SESSION_STATE_KEY, state),
                                   SESSION_NONCE_KEY, nonce),
                            SESSION_PROVIDER_KEY, provider.name))

\* the user dict built from the claims
UserOf(claims, provider_name) ==
    [sub |-> claims.sub,
     email |-> claims.email,
     name |-> IF claims.name # "" THEN claims.name ELSE claims.given_name,
     preferred_username |-> claims.preferred_username,
     provider |-> provider_name]

\* the user is stored and the transient values are left in the session
PersistUserKeepingState(sess, user) == SetKey(sess, SESSION_USER_KEY, user)

\* the user is stored, the transient oauth values are popped
PersistUser(sess, user) ==
    Pop(Pop(Pop(SetKey(sess, SESSION_USER_KEY, user), SESSION_STATE_KEY),
            SESSION_NONCE_KEY),
        SESSION_PROVIDER_KEY)

\* handle_callback(request, cfg, provider_name) with the query parameters
\* state and code
handle_callback(provider_name, q_state, q_code, idp, claims) ==
    LET call(status) == Call("callback", provider_name, q_state, q_code, status)
        state == IF q_state.present THEN q_state.v ELSE ""
        code  == IF q_code.present THEN q_code.v ELSE ""
        expected_state   == GetStr(session, SESSION_STATE_KEY)
        nonce            == GetStr(session, SESSION_NONCE_KEY)
        session_provider == GetStr(session, SESSION_PROVIDER_KEY)
        provider == _resolve_provider(provider_name)
    IN  IF ~auth.enabled THEN Respond(call(404), session)
        ELSE IF code = "" THEN Respond(call(400), session)
        ELSE IF state = "" \/ expected_state = "" \/ state # expected_state
          THEN Respond(call(400), session)
        ELSE IF nonce = "" THEN Respond(call(400), session)
        ELSE IF session_provider # "" /\ session_provider # provider_name
          THEN Respond(call(400), session)
        ELSE IF ~provider.ok THEN Respond(call(provider.status), session)
        ELSE IF idp # "ok" THEN Respond(call(500), session)
        ELSE Respond(call(302), PersistUser(session, UserOf(claims, provider.name)))

\* me(request), by way of current_user(request)
me ==
    Respond(Call("me", "", Absent, Absent,
                 IF SESSION_USER_KEY \in DOMAIN session THEN 200 ELSE 401),
            session)

\* logout(request)
logout == Respond(Call("logout", "", Absent, Absent, 200), <<>>)

InitAuth ==
    /\ enabled = FALSE
    /\ prompt = ""
    /\ goal = NoGoal
    /\ pc = "idle"
    /\ sent = 0
    /\ reply = NotYet
    /\ llm_result = NotYet
    /\ response = NotYet
    /\ subs_arg = NoSubs
    /\ auth \in [enabled : BOOLEAN, default_provider : DefaultProviders]
    /\ session = <<>>
    /\ last = NoCall
    /\ before = NoCall

Login ==
    \E pn \in ProviderNames, idp \in LoginOutcomes, state \in Tokens, nonce \in Tokens :
        start_login(pn, idp, state, nonce)

Callback ==
    \E pn \in ProviderNames, st \in QueryStates, cd \in QueryCodes,
       idp \in CallbackOutcomes, claims \in IdClaims :
        handle_callback(pn, st, cd, idp, claims)

NextAuth == Login \/ Callback \/ me \/ logout

SpecAuth == InitAuth /\ [][NextAuth]_vars

-----------------------------------------------------------------------------
(* Properties of the login flow (checked under SpecAuth)                   *)

LoggedIn(sess) == SESSION_USER_KEY \in DOMAIN sess
\* the call that has just returned logged a user in
Granted(call) == call.op = "callback" /\ call.status = 302
\* two callbacks carrying the same provider, state and code
SameRequest(c, d) ==
    /\ c.op = d.op
    /\ c.provider = d.provider
    /\ c.state = d.state
    /\ c.code = d.code

\* the session's user changes, to a user, only in a callback that succeeds
UserSetOnlyByCallback ==
    (LoggedIn(session') /\ (LoggedIn(session) => session'.user # session.user))
        => Granted(last')

\* the stored state changes, to a value, only in a start_login that succeeds,
\* and is then not empty
StateStoredOnlyByLogin ==
    (/\ SESSION_STATE_KEY \in DOMAIN session'
     /\ (SESSION_STATE_KEY \in DOMAIN session
            => session'.oauth_state # session.oauth_state))
        => /\ last'.op = "login"
           /\ last'.status = 302
           /\ session'.oauth_state # ""

\* a callback succeeds only with a code and with a state equal to the
\* non-empty stored one, with a stored nonce and no provider mismatch; it
\* stores the user and removes the stored state, nonce and provider
CallbackChecked ==
    Granted(last') =>
        /\ last'.code.present /\ last'.code.v # ""
        /\ last'.state.present
        /\ SESSION_STATE_KEY \in DOMAIN session
        /\ session.oauth_state # ""
        /\ last'.state.v = session.oauth_state
        /\ SESSION_NONCE_KEY \in DOMAIN session
        /\ session.oauth_nonce # ""
        /\ SESSION_PROVIDER_KEY \in DOMAIN session
              => session.oauth_provider = last'.provider
        /\ LoggedIn(session')
        /\ DOMAIN session' \cap
              {SESSION_STATE_KEY, SESSION_NONCE_KEY, SESSION_PROVIDER_KEY} = {}

\* the same callback again, right after it succeeded, is rejected with 400
\* and leaves the session as it is
ReplayRejected ==
    (Granted(last) /\ SameRequest(last', last))
        => last'.status = 400 /\ session' = session

\* logout leaves no user
LogoutClears == last'.op = "logout" => ~LoggedIn(session')

\* C16: on one session, over any sequence of start_login, handle_callback, me
\* and logout calls, the user is set only by a callback carrying a code and a
\* state equal to the non-empty state a start_login stored, with a stored
\* nonce and no provider mismatch; a successful callback removes the stored
\* state, nonce and provider, so the same callback replayed is rejected with
\* 400; after logout the session has no user.
C16_LoginFlow ==
    [][/\ UserSetOnlyByCallback
       /\ StateStoredOnlyByLogin
       /\ CallbackChecked
       /\ ReplayRejected
       /\ LogoutClears]_vars

\* a callback has logged a user in and the same callback, replayed, was
\* rejected with 400, the user staying logged in
C16_Witness ==
    /\ auth.enabled
    /\ Granted(before)
    /\ SameRequest(last, before)
    /\ last.status = 400
    /\ LoggedIn(session)
    /\ SESSION_STATE_KEY \notin DOMAIN session

\* a session logged out after a login: no user is left
C16_WitnessLogout ==
    /\ Granted(before)
    /\ last.op = "logout"
    /\ ~LoggedIn(session)

====
